---- MODULE Spec2Model ----
(***************************************************************************)
(* Model of ggk::Mgmt (src/src/Mgmt.cpp): the Bluetooth Management         *)
(* facade that encodes adapter commands into packed frames and hands them   *)
(* to HciAdapter::sendCommand.                                             *)
(*                                                                         *)
(* Strings are sequences of bytes (0..255), so that a std::string may hold  *)
(* an embedded zero byte.  A frame is a record of the fields of the packed  *)
(* SRequest structure of the operation that built it.  The transport is     *)
(* external: its answer to sendCommand is an input of every operation.      *)
(***************************************************************************)
EXTENDS Integers, Sequences, FiniteSets

VARIABLES
    constructed,      \* a Mgmt object exists
    controllerIndex,  \* Mgmt::controllerIndex
    transportLog,     \* calls made on HciAdapter since start, in order
    invocations,      \* operations invoked on the object that use the transport
    op,               \* the most recent invocation: its name and arguments
    sent,             \* frames passed to sendCommand during that invocation
    answers,          \* what sendCommand returned for each of those frames
    warnings,         \* Logger::warn entries produced during that invocation
    result,           \* the value that invocation returned
    stack             \* the bytes of the stack that follow the request object of that invocation

vars == <<constructed, controllerIndex, transportLog, invocations, op, sent, answers,
          warnings, result, stack>>

-----------------------------------------------------------------------------
(* Bounds and input sets *)

\* Number of transport-using operations invoked on one object
MaxCalls == 2

\* Values of the uint16_t constructor argument
ControllerIds == {0, 1, 65535}

\* uint8_t
Bytes == 0..255

\* Bytes of the stack modelled after a request object
RedZone == 2

\* What an uninitialised byte of the stack may hold
StackFill == {0, 204}

Min(a, b) == IF a <= b THEN a ELSE b

\* A string of n non-zero bytes
Str(n) == [i \in 1..n |-> 65 + (i % 26)]

\* A string of n bytes whose k-th byte is zero
StrNul(n, k) == [i \in 1..n |-> IF i = k THEN 0 ELSE 97 + (i % 26)]

IsPrefix(p, s) == Len(p) <= Len(s) /\ \A i \in 1..Len(p) : p[i] = s[i]

\* Arguments of setName: empty, short, at the limit, one over, far over, and
\* holding a zero byte
NameInputs == {Str(0), Str(1), Str(248), Str(249), Str(300), StrNul(250, 100)}
ShortNameInputs == {Str(0), Str(1), Str(10), Str(11), Str(20), StrNul(12, 3)}

\* Arguments of the uint8_t setters: the documented levels 0..2, the first
\* value outside them, and values around the sign bit and the top of the range
StateInputs == {0, 1, 2, 3, 128, 255}

-----------------------------------------------------------------------------
(* Constants of the program *)

\* Mgmt.h: limits used by truncateName / truncateShortName
kMaxAdvertisingNameLength == 248
kMaxAdvertisingShortNameLength == 10

\* sizeof(HciAdapter::HciHeader): code, controllerId, dataSize, each uint16_t, packed
SizeofHciHeader == 6

\* char name[249]; char shortName[11];
SizeofName == 249
SizeofShortName == 11

ADVERTISING_MAX_DATALEN == 31
SCAN_RSP_MAX_DATALEN == 17

\* static_cast to uint16_t
U16(x) == x % 65536

\* The enumerators of Mgmt that select a one-byte state command
StateCommandCodes ==
    { "ESetPoweredCommand", "ESetBREDRCommand", "ESetSecureConnectionsCommand",
      "ESetBondableCommand", "ESetConnectableCommand", "ESetLowEnergyCommand",
      "ESetAdvertisingCommand" }

-----------------------------------------------------------------------------
(* Name normalisation *)

\* std::string::substr(0, n)
Substr0(s, n) == SubSeq(s, 1, Min(n, Len(s)))

\* The limit applied one byte early
truncateName_OffByOne(name) ==
    IF Len(name) < kMaxAdvertisingNameLength
    THEN name
    ELSE Substr0(name, kMaxAdvertisingNameLength - 1)

truncateName(name) ==
    IF Len(name) <= kMaxAdvertisingNameLength
    THEN name
    ELSE Substr0(name, kMaxAdvertisingNameLength)

truncateShortName(name) ==
    IF Len(name) <= kMaxAdvertisingShortNameLength
    THEN name
    ELSE Substr0(name, kMaxAdvertisingShortNameLength)

-----------------------------------------------------------------------------
(* C library calls on memory.  A block of n bytes is a function on 0..n-1,  *)
(* as in the source; a call writes at byte offset `base` of the block.      *)

\* Storage of an automatic variable that has no initialiser
Uninitialised(n, garbage) == [i \in 0..(n - 1) |-> garbage]

\* Storage of a value-initialised variable (SRequest request{})
Zeroed(n) == [i \in 0..(n - 1) |-> 0]

\* The n bytes of mem that start at base
Slice(mem, base, n) == [i \in 0..(n - 1) |-> mem[base + i]]

\* memset(mem + base, value, n)
Memset(mem, base, value, n) ==
    [i \in DOMAIN mem |-> IF base <= i /\ i < base + n THEN value ELSE mem[i]]

\* strlen(s.c_str()): the bytes before the first zero byte
CStrLen(s) ==
    IF \E i \in 1..Len(s) : s[i] = 0
    THEN (CHOOSE i \in 1..Len(s) : s[i] = 0 /\ \A j \in 1..(i - 1) : s[j] # 0) - 1
    ELSE Len(s)

\* A copy of all length() bytes of the string, whatever they are
Snprintf_RawCopy(mem, base, size, s) ==
    LET n == Min(Len(s), size - 1)
    IN  [i \in DOMAIN mem |->
            IF base <= i /\ i < base + n THEN s[i - base + 1]
            ELSE IF i = base + n THEN 0 ELSE mem[i]]

\* snprintf(mem + base, size, "%s", s.c_str()): at most size-1 bytes of the
\* C string, then a terminating zero byte
Snprintf(mem, base, size, s) ==
    LET n == Min(CStrLen(s), size - 1)
    IN  IF size = 0 THEN mem
        ELSE [i \in DOMAIN mem |->
                IF base <= i /\ i < base + n THEN s[i - base + 1]
                ELSE IF i = base + n THEN 0 ELSE mem[i]]

\* memcpy(mem + base, s.c_str(), n); s.c_str() is the bytes of s and a zero byte
Memcpy(mem, base, s, n) ==
    LET src == Append(s, 0)
    IN  [i \in DOMAIN mem |-> IF base <= i /\ i < base + n THEN src[i - base + 1] ELSE mem[i]]

\* The assignments mem[k] = v for the pairs <<k, v>> of writes (distinct k)
Store(mem, writes) ==
    [i \in DOMAIN mem |->
        IF \E w \in 1..Len(writes) : writes[w][1] = i
        THEN writes[CHOOSE w \in 1..Len(writes) : writes[w][1] = i][2]
        ELSE mem[i]]

-----------------------------------------------------------------------------
(* Frames *)

\* Byte offsets of the fields of setName's SRequest after the header
OffsetName == 0
OffsetShortName == OffsetName + SizeofName
SizeofSetNamePayload == OffsetShortName + SizeofShortName

\* The request object of setName and the stack after it, once the buffers are filled
SetNameMemory(name, shortName, garbage) ==
    LET n0 == truncateName(name)
        s0 == truncateShortName(shortName)
        m0 == Uninitialised(SizeofSetNamePayload + RedZone, garbage)
        m1 == Memset(m0, OffsetName, 0, SizeofName)
        m2 == Snprintf(m1, OffsetName, SizeofName, n0)
        m3 == Memset(m2, OffsetShortName, 0, SizeofShortName)
    IN  Snprintf(m3, OffsetShortName, SizeofShortName, s0)

\* dataSize taken as the size of the whole request, header included
SetNameRequest_WholeSize(ci, mem) ==
    [ code         |-> "ESetLocalNameCommand",
      controllerId |-> ci,
      dataSize     |-> U16(SizeofHciHeader + SizeofSetNamePayload),
      name         |-> Slice(mem, OffsetName, SizeofName),
      shortName    |-> Slice(mem, OffsetShortName, SizeofShortName) ]

SetNameRequest(ci, mem) ==
    [ code         |-> "ESetLocalNameCommand",
      controllerId |-> ci,
      dataSize     |-> U16((SizeofHciHeader + SizeofSetNamePayload) - SizeofHciHeader),
      name         |-> Slice(mem, OffsetName, SizeofName),
      shortName    |-> Slice(mem, OffsetShortName, SizeofShortName) ]

\* The state limited to the documented levels 0..2
SetStateRequest_Clamped(commandCode, controllerId, newState) ==
    [ code         |-> commandCode,
      controllerId |-> controllerId,
      dataSize     |-> U16((SizeofHciHeader + 1) - SizeofHciHeader),
      state        |-> Min(newState, 2) ]

SetStateRequest(commandCode, controllerId, newState) ==
    [ code         |-> commandCode,
      controllerId |-> controllerId,
      dataSize     |-> U16((SizeofHciHeader + 1) - SizeofHciHeader),
      state        |-> newState ]

\* "SKYWALKER-XXXXX"
local_name == <<83, 75, 89, 87, 65, 76, 75, 69, 82, 45, 88, 88, 88, 88, 88>>

\* The manufacturer entry's length byte set to the bytes written after it (17)
AdvertisingData_WrittenLength ==
    Store(Zeroed(ADVERTISING_MAX_DATALEN),
          << <<0, 2>>, <<1, 1>>, <<2, 6>>,
             <<3, 17>>, <<4, 255>>, <<5, 166>>, <<6, 2>>,
             <<7, 0>>, <<8, 0>>, <<9, 0>>, <<10, 100>>,
             <<11, 176>>, <<12, 208>>, <<13, 86>>, <<14, 242>>,
             <<15, 181>>, <<16, 18>>, <<17, 0>>, <<18, 0>>,
             <<19, 0>>, <<20, 0>> >>)

\* request.data after lines 211-245: a flags entry and a manufacturer entry
AdvertisingData ==
    Store(Zeroed(ADVERTISING_MAX_DATALEN),
          << <<0, 2>>, <<1, 1>>, <<2, 6>>,
             <<3, 27>>, <<4, 255>>, <<5, 166>>, <<6, 2>>,
             <<7, 0>>, <<8, 0>>, <<9, 0>>, <<10, 100>>,
             <<11, 176>>, <<12, 208>>, <<13, 86>>, <<14, 242>>,
             <<15, 181>>, <<16, 18>>, <<17, 0>>, <<18, 0>>,
             <<19, 0>>, <<20, 0>> >>)

\* request.scanRspData after lines 248-254: a complete-local-name entry
ScanResponseData ==
    Memcpy(Store(Zeroed(SCAN_RSP_MAX_DATALEN), << <<0, 16>>, <<1, 9>> >>),
           2, local_name, SCAN_RSP_MAX_DATALEN - 2)

\* sizeof(SRequest) of addAdvertising: header, instance, flags, duration,
\* timeout, advDataLen, scanRspLen and the two buffers, packed
SizeofAddAdvertisingRequest ==
    SizeofHciHeader + 1 + 4 + 2 + 2 + 1 + 1 + ADVERTISING_MAX_DATALEN + SCAN_RSP_MAX_DATALEN

\* advDataLen set to the number of bytes of data assigned one by one (21)
AddAdvertisingRequest_AssignedBytes(ci) ==
    [ code         |-> "EAddAdvertisingCommand",
      controllerId |-> ci,
      dataSize     |-> U16(SizeofAddAdvertisingRequest - SizeofHciHeader),
      instance     |-> 1,
      flags        |-> 0,
      duration     |-> 0,
      timeout      |-> 0,
      advDataLen   |-> 21,
      scanRspLen   |-> SCAN_RSP_MAX_DATALEN,
      data         |-> AdvertisingData,
      scanRspData  |-> ScanResponseData ]

AddAdvertisingRequest(ci) ==
    [ code         |-> "EAddAdvertisingCommand",
      controllerId |-> ci,
      dataSize     |-> U16(SizeofAddAdvertisingRequest - SizeofHciHeader),
      instance     |-> 1,
      flags        |-> 0,
      duration     |-> 0,
      timeout      |-> 0,
      advDataLen   |-> ADVERTISING_MAX_DATALEN,
      scanRspLen   |-> SCAN_RSP_MAX_DATALEN,
      data         |-> AdvertisingData,
      scanRspData  |-> ScanResponseData ]

-----------------------------------------------------------------------------
(* Operations *)

Init ==
    /\ constructed = FALSE
    /\ controllerIndex = 0
    /\ transportLog = <<>>
    /\ invocations = 0
    /\ op = [name |-> "none", args |-> <<>>]
    /\ sent = <<>>
    /\ answers = <<>>
    /\ warnings = <<>>
    /\ result = FALSE
    /\ stack = <<>>

\* A constructor that stores the index and does not call sync
Mgmt_NoSync(ci) ==
    /\ ~constructed
    /\ constructed' = TRUE
    /\ controllerIndex' = ci
    /\ op' = [name |-> "Mgmt", args |-> <<ci>>]
    /\ UNCHANGED <<transportLog, invocations, sent, answers, warnings, result, stack>>

\* Mgmt::Mgmt(controllerIndex)
Mgmt(ci) ==
    /\ ~constructed
    /\ constructed' = TRUE
    /\ controllerIndex' = ci
    /\ transportLog' = Append(transportLog, [call |-> "sync", arg |-> ci])
    /\ op' = [name |-> "Mgmt", args |-> <<ci>>]
    /\ UNCHANGED <<invocations, sent, answers, warnings, result, stack>>

setName(name, shortName, garbage, accepted) ==
    /\ constructed /\ invocations < MaxCalls
    /\ LET mem     == SetNameMemory(name, shortName, garbage)
           request == SetNameRequest(controllerIndex, mem)
       IN  /\ sent' = <<request>>
           /\ stack' = Slice(mem, SizeofSetNamePayload, RedZone)
    /\ transportLog' = Append(transportLog, [call |-> "sendCommand"])
    /\ answers' = <<accepted>>
    /\ invocations' = invocations + 1
    /\ warnings' = IF ~accepted THEN <<[text |-> "  + Failed to set name"]>> ELSE <<>>
    /\ result' = accepted
    /\ op' = [name |-> "setName", args |-> <<name, shortName, garbage>>]
    /\ UNCHANGED <<constructed, controllerIndex>>

\* setState sending the frame a second time after a rejection
setState_Retry(commandCode, controllerId, newState, accepted) ==
    /\ constructed /\ invocations < MaxCalls
    /\ LET request == SetStateRequest(commandCode, controllerId, newState)
       IN  IF accepted
           THEN /\ sent' = <<request>>
                /\ answers' = <<TRUE>>
                /\ transportLog' = Append(transportLog, [call |-> "sendCommand"])
                /\ warnings' = <<>>
           ELSE /\ sent' = <<request, request>>
                /\ answers' = <<FALSE, FALSE>>
                /\ transportLog' = transportLog \o <<[call |-> "sendCommand"],
                                                     [call |-> "sendCommand"]>>
                /\ warnings' = <<[text |-> "  + Failed to set ", name |-> commandCode,
                                  state |-> newState]>>
    /\ invocations' = invocations + 1
    /\ result' = accepted
    /\ stack' = <<>>
    /\ UNCHANGED <<constructed, controllerIndex>>

\* The body of setState, shared by the setters that call it
setState(commandCode, controllerId, newState, accepted) ==
    /\ constructed /\ invocations < MaxCalls
    /\ sent' = <<SetStateRequest(commandCode, controllerId, newState)>>
    /\ transportLog' = Append(transportLog, [call |-> "sendCommand"])
    /\ answers' = <<accepted>>
    /\ invocations' = invocations + 1
    /\ warnings' =
          IF ~accepted
          THEN <<[text |-> "  + Failed to set ", name |-> commandCode,
                  state |-> newState]>>
          ELSE <<>>
    /\ result' = accepted
    /\ stack' = <<>>
    /\ UNCHANGED <<constructed, controllerIndex>>

\* true converted to a byte with every bit set
BoolState_AllOnes(newState) == IF newState THEN 255 ELSE 0

\* bool converted to the uint8_t argument: newState ? 1 : 0
BoolState(newState) == IF newState THEN 1 ELSE 0

setStateCall(commandCode, controllerId, newState, accepted) ==
    /\ setState(commandCode, controllerId, newState, accepted)
    /\ op' = [name |-> "setState", args |-> <<commandCode, controllerId, newState>>]

setPowered(newState, accepted) ==
    /\ setState("ESetPoweredCommand", controllerIndex, BoolState(newState), accepted)
    /\ op' = [name |-> "setPowered", args |-> <<newState>>]

setBredr(newState, accepted) ==
    /\ setState("ESetBREDRCommand", controllerIndex, BoolState(newState), accepted)
    /\ op' = [name |-> "setBredr", args |-> <<newState>>]

setSecureConnections(newState, accepted) ==
    /\ setState("ESetSecureConnectionsCommand", controllerIndex, newState, accepted)
    /\ op' = [name |-> "setSecureConnections", args |-> <<newState>>]

setBondable(newState, accepted) ==
    /\ setState("ESetBondableCommand", controllerIndex, BoolState(newState), accepted)
    /\ op' = [name |-> "setBondable", args |-> <<newState>>]

setConnectable(newState, accepted) ==
    /\ setState("ESetConnectableCommand", controllerIndex, BoolState(newState), accepted)
    /\ op' = [name |-> "setConnectable", args |-> <<newState>>]

setLE(newState, accepted) ==
    /\ setState("ESetLowEnergyCommand", controllerIndex, BoolState(newState), accepted)
    /\ op' = [name |-> "setLE", args |-> <<newState>>]

setAdvertising(newState, accepted) ==
    /\ setState("ESetAdvertisingCommand", controllerIndex, newState, accepted)
    /\ op' = [name |-> "setAdvertising", args |-> <<newState>>]

\* addAdvertising returning false on a rejection without logging it
addAdvertising_Silent(accepted) ==
    /\ constructed /\ invocations < MaxCalls
    /\ sent' = <<AddAdvertisingRequest(controllerIndex)>>
    /\ transportLog' = Append(transportLog, [call |-> "sendCommand"])
    /\ answers' = <<accepted>>
    /\ invocations' = invocations + 1
    /\ warnings' = <<>>
    /\ result' = accepted
    /\ stack' = <<>>
    /\ op' = [name |-> "addAdvertising", args |-> <<>>]
    /\ UNCHANGED <<constructed, controllerIndex>>

addAdvertising(accepted) ==
    /\ constructed /\ invocations < MaxCalls
    /\ sent' = <<AddAdvertisingRequest(controllerIndex)>>
    /\ transportLog' = Append(transportLog, [call |-> "sendCommand"])
    /\ answers' = <<accepted>>
    /\ invocations' = invocations + 1
    /\ warnings' =
          IF ~accepted
          THEN <<[text |-> "  + Failed to start advertising with UUID"]>>
          ELSE <<>>
    /\ result' = accepted
    /\ stack' = <<>>
    /\ op' = [name |-> "addAdvertising", args |-> <<>>]
    /\ UNCHANGED <<constructed, controllerIndex>>

\* The static helpers, called on their own
truncateNameCall(name) ==
    /\ op' = [name |-> "truncateName", args |-> <<name>>]
    /\ result' = truncateName(name)
    /\ sent' = <<>>
    /\ answers' = <<>>
    /\ warnings' = <<>>
    /\ stack' = <<>>
    /\ UNCHANGED <<constructed, controllerIndex, transportLog, invocations>>

truncateShortNameCall(name) ==
    /\ op' = [name |-> "truncateShortName", args |-> <<name>>]
    /\ result' = truncateShortName(name)
    /\ sent' = <<>>
    /\ answers' = <<>>
    /\ warnings' = <<>>
    /\ stack' = <<>>
    /\ UNCHANGED <<constructed, controllerIndex, transportLog, invocations>>

Next ==
    \/ \E ci \in ControllerIds : Mgmt(ci)
    \/ \E name \in NameInputs, shortName \in ShortNameInputs,
          garbage \in StackFill, accepted \in BOOLEAN :
            setName(name, shortName, garbage, accepted)
    \/ \E commandCode \in StateCommandCodes, controllerId \in ControllerIds,
          newState \in StateInputs, accepted \in BOOLEAN :
            setStateCall(commandCode, controllerId, newState, accepted)
    \/ \E newState \in BOOLEAN, accepted \in BOOLEAN : setPowered(newState, accepted)
    \/ \E newState \in BOOLEAN, accepted \in BOOLEAN : setBredr(newState, accepted)
    \/ \E newState \in StateInputs, accepted \in BOOLEAN :
            setSecureConnections(newState, accepted)
    \/ \E newState \in BOOLEAN, accepted \in BOOLEAN : setBondable(newState, accepted)
    \/ \E newState \in BOOLEAN, accepted \in BOOLEAN : setConnectable(newState, accepted)
    \/ \E newState \in BOOLEAN, accepted \in BOOLEAN : setLE(newState, accepted)
    \/ \E newState \in StateInputs, accepted \in BOOLEAN : setAdvertising(newState, accepted)
    \/ \E accepted \in BOOLEAN : addAdvertising(accepted)
    \/ \E name \in NameInputs \cup ShortNameInputs : truncateNameCall(name)
    \/ \E name \in NameInputs \cup ShortNameInputs : truncateShortNameCall(name)

Spec == Init /\ [][Next]_vars

\* The state setters alone, the two uint8_t setters over every value of a byte
NextLevels ==
    \/ \E ci \in ControllerIds : Mgmt(ci)
    \/ \E commandCode \in StateCommandCodes, controllerId \in ControllerIds,
          newState \in StateInputs, accepted \in BOOLEAN :
            setStateCall(commandCode, controllerId, newState, accepted)
    \/ \E newState \in Bytes, accepted \in BOOLEAN :
            setSecureConnections(newState, accepted)
    \/ \E newState \in Bytes, accepted \in BOOLEAN : setAdvertising(newState, accepted)

SpecLevels == Init /\ [][NextLevels]_vars

-----------------------------------------------------------------------------
(* Properties *)

\* The operations that build a frame and hand it to the transport
TransportOps ==
    { "setName", "setState", "setPowered", "setBredr", "setSecureConnections",
      "setBondable", "setConnectable", "setLE", "setAdvertising", "addAdvertising" }

\* The setters that take a bool
BoolSetters == {"setPowered", "setBredr", "setBondable", "setConnectable", "setLE"}

\* The operations that take the controller index from the object
MemberOps == TransportOps \ {"setState"}

\* Reading buf from offset off as entries (a length byte L, then L bytes, the
\* first of them the type) up to len: the offset where the reading ends, or -1
\* when an entry has no type byte or starts outside buf
RECURSIVE EntriesEnd(_, _, _)
EntriesEnd(buf, off, len) ==
    IF off >= len THEN off
    ELSE IF off \notin DOMAIN buf THEN -1
    ELSE IF buf[off] = 0 THEN -1
    ELSE EntriesEnd(buf, off + 1 + buf[off], len)

\* The longest prefix of s that holds no zero byte
BeforeZero(s) ==
    LET ok == {n \in 0..Len(s) : \A j \in 1..n : s[j] # 0}
    IN  SubSeq(s, 1, CHOOSE n \in ok : \A m \in ok : m <= n)

\* The first limit bytes of s
Prefix(s, limit) == SubSeq(s, 1, Min(Len(s), limit))

\* field holds the bytes of text and then only zero bytes, to its last byte
HoldsThenZero(field, size, text) ==
    /\ DOMAIN field = 0..(size - 1)
    /\ Len(text) < size
    /\ \A i \in 0..(size - 1) : field[i] = IF i < Len(text) THEN text[i + 1] ELSE 0
    /\ field[size - 1] = 0

\* C1 as stated: the frame addAdvertising() sends has advDataLen == 21 and
\* scanRspLen == 17.
C1_Original ==
    op.name = "addAdvertising" =>
        /\ Len(sent) = 1
        /\ sent[1].advDataLen = 21
        /\ sent[1].scanRspLen = 17

\* C1 amended: the frame addAdvertising() sends has advDataLen == 31 (the
\* whole advertising buffer) and scanRspLen == 17.
C1_AdvertisingLengths ==
    op.name = "addAdvertising" =>
        /\ Len(sent) = 1
        /\ sent[1].advDataLen = 31
        /\ sent[1].scanRspLen = 17

C1_Witness ==
    /\ op.name = "addAdvertising"
    /\ Len(sent) = 1
    /\ sent[1].code = "EAddAdvertisingCommand"
    /\ sent[1].instance = 1

\* C2: in the frame addAdvertising() sends, reading data as consecutive
\* entries from offset 0 ends exactly at advDataLen, which is at most 31, and
\* reading scanRspData ends exactly at scanRspLen, which is at most 17; no
\* entry reaches past its buffer.
C2_EntriesFillDeclaredLength ==
    op.name = "addAdvertising" =>
        /\ Len(sent) = 1
        /\ DOMAIN sent[1].data = 0..30
        /\ DOMAIN sent[1].scanRspData = 0..16
        /\ sent[1].advDataLen <= 31
        /\ EntriesEnd(sent[1].data, 0, sent[1].advDataLen) = sent[1].advDataLen
        /\ sent[1].scanRspLen <= 17
        /\ EntriesEnd(sent[1].scanRspData, 0, sent[1].scanRspLen) = sent[1].scanRspLen

C2_Witness ==
    /\ op.name = "addAdvertising"
    /\ Len(sent) = 1
    /\ sent[1].data[0] = 2
    /\ sent[1].data[3] = 27
    /\ sent[1].scanRspData[0] = 16
    /\ sent[1].scanRspData[16] = 88

\* C3: when sendCommand reports rejection the operation returns failure and
\* logs exactly one warning; when it reports acceptance the operation returns
\* success and logs no warning.  This holds of every operation that uses the
\* transport.
C3_RejectionWarnsOnce ==
    op.name \in TransportOps =>
        /\ Len(answers) >= 1
        /\ answers[1] = FALSE => (result = FALSE /\ Len(warnings) = 1)
        /\ answers[1] = TRUE => (result = TRUE /\ Len(warnings) = 0)

C3_Witness ==
    /\ op.name = "addAdvertising"
    /\ answers = <<FALSE>>
    /\ result = FALSE
    /\ Len(warnings) = 1

\* C4: every operation calls sendCommand exactly once per invocation, whether
\* the frame is accepted or rejected: after n invocations the transport has
\* seen exactly n sendCommand calls.
C4_OneSendPerInvocation ==
    /\ op.name \in TransportOps => (Len(sent) = 1 /\ Len(answers) = 1)
    /\ Cardinality({i \in 1..Len(transportLog) : transportLog[i].call = "sendCommand"})
          = invocations

C4_Witness ==
    /\ op.name = "setConnectable"
    /\ answers = <<FALSE>>
    /\ invocations = 2
    /\ Len(transportLog) = 3

\* C5: for every pair of input strings the frame setName sends has dataSize
\* equal to exactly 260.
C5_SetNameDataSize ==
    op.name = "setName" => (Len(sent) = 1 /\ sent[1].dataSize = 260)

C5_Witness ==
    /\ op.name = "setName"
    /\ Len(op.args[1]) = 300
    /\ Len(op.args[2]) = 0
    /\ sent[1].dataSize = 260

\* C6 as stated: the name field holds the truncated name followed only by
\* zero bytes, the shortName field holds the truncated short name followed
\* only by zero bytes, the last byte of each field is zero and no byte is
\* written outside either field.
C6_Original ==
    op.name = "setName" =>
        /\ HoldsThenZero(sent[1].name, 249, Prefix(op.args[1], kMaxAdvertisingNameLength))
        /\ HoldsThenZero(sent[1].shortName, 11,
                         Prefix(op.args[2], kMaxAdvertisingShortNameLength))
        /\ \A i \in DOMAIN stack : stack[i] = op.args[3]

\* C6 amended: each field holds the truncated string up to its first zero
\* byte (all of it when it has none) followed only by zero bytes; the last
\* byte of each field is zero and no byte is written outside either field.
C6_FieldsHoldCString ==
    op.name = "setName" =>
        /\ HoldsThenZero(sent[1].name, 249,
                         BeforeZero(Prefix(op.args[1], kMaxAdvertisingNameLength)))
        /\ HoldsThenZero(sent[1].shortName, 11,
                         BeforeZero(Prefix(op.args[2], kMaxAdvertisingShortNameLength)))
        /\ \A i \in DOMAIN stack : stack[i] = op.args[3]

C6_Witness ==
    /\ op.name = "setName"
    /\ Len(op.args[1]) = 250 /\ op.args[1][100] = 0
    /\ Len(op.args[2]) = 20
    /\ op.args[3] = 204
    /\ sent[1].name[98] # 0 /\ sent[1].name[99] = 0 /\ sent[1].name[100] = 0
    /\ sent[1].shortName[9] # 0 /\ sent[1].shortName[10] = 0

\* C7: truncateName returns a prefix of its input of length
\* min(len(input), kMaxAdvertisingNameLength), and truncateShortName a prefix
\* of length min(len(input), kMaxAdvertisingShortNameLength).
C7_TruncationIsBoundedPrefix ==
    /\ op.name = "truncateName" =>
          /\ IsPrefix(result, op.args[1])
          /\ Len(result) = Min(Len(op.args[1]), kMaxAdvertisingNameLength)
    /\ op.name = "truncateShortName" =>
          /\ IsPrefix(result, op.args[1])
          /\ Len(result) = Min(Len(op.args[1]), kMaxAdvertisingShortNameLength)

C7_Witness ==
    /\ op.name = "truncateName"
    /\ Len(op.args[1]) = 300
    /\ Len(result) = 248

\* C8: for each boolean setter the frame sent has dataSize 1 and a state byte
\* of exactly 1 when called with true and exactly 0 when called with false.
C8_BooleanStateByte ==
    op.name \in BoolSetters =>
        /\ Len(sent) = 1
        /\ sent[1].dataSize = 1
        /\ op.args[1] = TRUE => sent[1].state = 1
        /\ op.args[1] = FALSE => sent[1].state = 0

C8_Witness ==
    /\ op.name = "setPowered"
    /\ op.args[1] = TRUE
    /\ sent[1].code = "ESetPoweredCommand"
    /\ sent[1].state = 1

\* C9: setState, setAdvertising and setSecureConnections validate no range:
\* a frame is sent whose state byte is newState unchanged, also above 2, and
\* the result is the transport's answer.
C9_StateForwardedUnchanged ==
    /\ op.name \in {"setAdvertising", "setSecureConnections"} =>
          /\ Len(sent) = 1
          /\ sent[1].state = op.args[1]
          /\ result = answers[1]
    /\ op.name = "setState" =>
          /\ Len(sent) = 1
          /\ sent[1].code = op.args[1]
          /\ sent[1].controllerId = op.args[2]
          /\ sent[1].state = op.args[3]
          /\ result = answers[1]

C9_Witness ==
    /\ op.name = "setAdvertising"
    /\ op.args[1] = 200
    /\ sent[1].state = 200
    /\ answers = <<TRUE>>
    /\ result = TRUE

\* C10: sync(c) is called exactly once, at construction and before any
\* sendCommand; every frame sent by an operation of the object carries
\* controllerId == c, and the stored controller index stays c.
C10_SyncOnceIndexFixed ==
    /\ ~constructed => transportLog = <<>>
    /\ constructed =>
          /\ Len(transportLog) >= 1
          /\ transportLog[1].call = "sync"
          /\ transportLog[1].arg = controllerIndex
          /\ \A i \in 2..Len(transportLog) : transportLog[i].call = "sendCommand"
    /\ op.name \in MemberOps =>
          \A i \in 1..Len(sent) : sent[i].controllerId = controllerIndex

C10_Witness ==
    /\ constructed
    /\ controllerIndex = 65535
    /\ invocations = 2
    /\ op.name = "setName"
    /\ answers = <<FALSE>>
    /\ sent[1].controllerId = 65535

====
